---- MODULE Spec2Model ----
(***************************************************************************)
(* FieldExpense Pro: the document scanner (capture controller and crop     *)
(* geometry), the ledger store with its blob store and durable records,    *)
(* and the report assembler, as state machines.                            *)
(*                                                                         *)
(* Arithmetic of the crop geometry is exact rational arithmetic (the code  *)
(* uses IEEE doubles; rounding of the last bit is not modelled).           *)
(***************************************************************************)
EXTENDS Integers, Sequences, FiniteSets, TLC

VARIABLES
    frame,      \* video.videoWidth/Height and window.innerWidth/Height
    scanner,    \* DocumentScanner component state, stream and hardware
    caps,       \* capturePhoto invocations, one record per call that passed the guard
    ui,         \* App view state (showScanner, isProcessing, lastAlert, ...)
    expenses,   \* App state: the ledger, newest entry first
    metadata,   \* App state: the report metadata
    store,      \* isLoaded and the two localStorage records
    blob,       \* the blob store (dbService): id -> payload or Absent
    tasks,      \* ledger handlers suspended on an await
    addDel,     \* history: an add followed by a delete of the id it generated
    updDel,     \* history: an update with a payload and a delete of the same id
    clr,        \* history: a confirmed clear-all and what was in flight then
    ops,        \* number of ledger operations the user has started
    gens,       \* generatePDF invocations and the documents they build
    recog       \* one receipt on its way from recognition to addExpense

capVars == <<frame, scanner, caps>>
ledVars == <<expenses, metadata, store, blob, tasks, addDel, updDel, clr, ops>>
vars == <<frame, scanner, caps, ui, expenses, metadata, store, blob, tasks,
          addDel, updDel, clr, ops, gens, recog>>

----------------------------------------------------------------------------
(* Bounds of the model *)

MaxViewSteps == 5       \* viewport sizes are multiples of a step, up to this many steps
MaxVideoSteps == 4      \* video sizes likewise
MaxCaptures == 3        \* capturePhoto invocations per run
MaxScans == 2           \* times the scanner view is opened per run
MaxIds == 4             \* entry ids the blob store holds keys for
MaxEntries == 2         \* ledger entries when a report is generated
MaxOps == 3             \* ledger operations the user starts per run
MaxReports == 1         \* generatePDF invocations that pass the checks, per run
MaxClicks == 2          \* the same, in the runs where the button is clicked again

----------------------------------------------------------------------------
(* Exact rationals <<n, d>>, d > 0, in lowest terms *)

Abs(x) == IF x < 0 THEN -x ELSE x

RECURSIVE GCD(_, _)
GCD(a, b) == IF b = 0 THEN a ELSE GCD(b, a % b)

Norm(n, d) == LET g == GCD(Abs(n), d) IN <<n \div g, d \div g>>

R(n) == <<n, 1>>

RMul(a, b) ==
    LET g1 == GCD(Abs(a[1]), b[2])
        g2 == GCD(Abs(b[1]), a[2])
    IN  <<(a[1] \div g1) * (b[1] \div g2), (a[2] \div g2) * (b[2] \div g1)>>

RDiv(a, b) == RMul(a, <<b[2], b[1]>>)

RAdd(a, b) ==
    LET g == GCD(a[2], b[2])
    IN  Norm(a[1] * (b[2] \div g) + b[1] * (a[2] \div g), (a[2] \div g) * b[2])

RSub(a, b) == RAdd(a, <<-b[1], b[2]>>)

RLe(a, b) == a[1] * b[2] <= b[1] * a[2]

RLt(a, b) == a[1] * b[2] < b[1] * a[2]

RMin(a, b) == IF RLe(a, b) THEN a ELSE b

Floor(a) == a[1] \div a[2]

----------------------------------------------------------------------------
(* Geometry of capturePhoto *)

scale == 3
HudWidthFactor == <<17, 20>>    \* 0.85
HudHeightFactor == <<3, 5>>     \* 0.6
HudMaxWidth == 450
HudMaxHeight == 600

vAspect(f) == RDiv(R(f.vW), R(f.vH))
sAspect(f) == RDiv(R(f.wW), R(f.wH))

CoverFit_Swapped(f) ==
    IF RLt(vAspect(f), sAspect(f))
    THEN LET sw == RMul(R(f.vH), sAspect(f))
         IN  [sourceX |-> RDiv(RSub(R(f.vW), sw), R(2)), sourceY |-> R(0),
              sourceWidth |-> sw, sourceHeight |-> R(f.vH)]
    ELSE LET sh == RDiv(R(f.vW), sAspect(f))
         IN  [sourceX |-> R(0), sourceY |-> RDiv(RSub(R(f.vH), sh), R(2)),
              sourceWidth |-> R(f.vW), sourceHeight |-> sh]

CoverFit_WrongHeight(f) ==
    IF RLt(sAspect(f), vAspect(f))
    THEN LET sw == RMul(R(f.vH), sAspect(f))
         IN  [sourceX |-> RDiv(RSub(R(f.vW), sw), R(2)), sourceY |-> R(0),
              sourceWidth |-> sw, sourceHeight |-> R(f.vH)]
    ELSE LET sh == RMul(R(f.vW), sAspect(f))
         IN  [sourceX |-> R(0), sourceY |-> RDiv(RSub(R(f.vH), sh), R(2)),
              sourceWidth |-> R(f.vW), sourceHeight |-> sh]

\* The cover-fit stage: the part of the video frame that is displayed.
CoverFit(f) ==
    IF RLt(sAspect(f), vAspect(f))
    THEN LET sw == RMul(R(f.vH), sAspect(f))
         IN  [sourceX |-> RDiv(RSub(R(f.vW), sw), R(2)), sourceY |-> R(0),
              sourceWidth |-> sw, sourceHeight |-> R(f.vH)]
    ELSE LET sh == RDiv(R(f.vW), sAspect(f))
         IN  [sourceX |-> R(0), sourceY |-> RDiv(RSub(R(f.vH), sh), R(2)),
              sourceWidth |-> R(f.vW), sourceHeight |-> sh]

hudW_CSS(f) == RMin(RMul(R(f.wW), HudWidthFactor), R(HudMaxWidth))
hudH_CSS(f) == RMin(RMul(R(f.wH), HudHeightFactor), R(HudMaxHeight))

hudX_Percent(f) == RDiv(RDiv(RSub(R(f.wW), hudW_CSS(f)), R(2)), R(f.wW))
hudY_Percent(f) == RDiv(RDiv(RSub(R(f.wH), hudH_CSS(f)), R(2)), R(f.wH))
hudW_Percent(f) == RDiv(hudW_CSS(f), R(f.wW))
hudH_Percent(f) == RDiv(hudH_CSS(f), R(f.wH))

\* Assigning a number to canvas.width / canvas.height (an unsigned long
\* attribute) keeps its integer part.
CanvasDim_Exact(x) == x

CanvasDim(x) == R(Floor(x))

\* Everything capturePhoto computes between reading the sizes and drawImage.
CropRect(f) ==
    LET cf == CoverFit(f)
    IN  [sourceX |-> cf.sourceX, sourceY |-> cf.sourceY,
         sourceWidth |-> cf.sourceWidth, sourceHeight |-> cf.sourceHeight,
         hudW_CSS |-> hudW_CSS(f), hudH_CSS |-> hudH_CSS(f),
         finalSourceX |-> RAdd(cf.sourceX, RMul(hudX_Percent(f), cf.sourceWidth)),
         finalSourceY |-> RAdd(cf.sourceY, RMul(hudY_Percent(f), cf.sourceHeight)),
         finalSourceW |-> RMul(hudW_Percent(f), cf.sourceWidth),
         finalSourceH |-> RMul(hudH_Percent(f), cf.sourceHeight),
         canvasWidth |-> CanvasDim(RMul(hudW_CSS(f), R(scale))),
         canvasHeight |-> CanvasDim(RMul(hudH_CSS(f), R(scale)))]

\* The guide frame of the markup: a flex column with 16px horizontal
\* padding (px-4) holds a box that is w-full, max-w-[450px] and h-[60%].
GuidePaddingX == 16
GuideMaxWidth == 450
GuideHeightFactor == <<3, 5>>

GuideFrameCSS(f) ==
    [width |-> RMin(R(f.wW - 2 * GuidePaddingX), R(GuideMaxWidth)),
     height |-> RMul(R(f.wH), GuideHeightFactor)]

----------------------------------------------------------------------------
(* The scanner view and capturePhoto *)

ViewWidths == {120 * k : k \in 1..MaxViewSteps} \cup {375, 1080}
ViewHeights == {240 * k : k \in 1..MaxViewSteps} \cup {667, 1920}
VideoWidths == {240 * k : k \in 1..MaxVideoSteps} \cup {4096}
VideoHeights == {240 * k : k \in 1..MaxVideoSteps} \cup {2160}

Frames == [vW : VideoWidths, vH : VideoHeights, wW : ViewWidths, wH : ViewHeights]

\* The scenario of the spec: a 1080x1920 viewport against a 4096x2160 video.
ScenarioFrame == [vW |-> 4096, vH |-> 2160, wW |-> 1080, wH |-> 1920]

NoCrop == [sourceX |-> R(0)]

\* useState initial values of DocumentScanner, and a camera not yet granted.
\* live: a track of a MediaStream that getUserMedia gave is not stopped;
\* lateReq: the getUserMedia call of a scanner closed before it settled.
ScannerUnmounted ==
    [mounted |-> FALSE, stream |-> FALSE, ready |-> FALSE, torchCapable |-> FALSE,
     torch |-> FALSE, isCapturing |-> FALSE, flashUI |-> FALSE,
     live |-> FALSE, lateReq |-> FALSE]

ScannerMounted == [ScannerUnmounted EXCEPT !.mounted = TRUE]

\* A scanner whose camera is streaming decoded frames.
ScannerStreaming ==
    [ScannerMounted EXCEPT !.stream = TRUE, !.ready = TRUE, !.torchCapable = TRUE,
                           !.live = TRUE]

\* The component is unmounted: its state is discarded. The effect cleanup
\* closes over the first render's stream (null), so it stops no track and
\* the hardware flash stays as it is.
Unmount(sc) ==
    [ScannerUnmounted EXCEPT !.torch = sc.torch, !.live = sc.live,
                             !.lateReq = sc.lateReq \/ (sc.mounted /\ ~sc.stream)]

UiInit ==
    [showScanner |-> FALSE, scans |-> 0, isProcessing |-> FALSE, analyses |-> 0,
     pendingOCRData |-> FALSE, showManualForm |-> FALSE, showSignPad |-> FALSE,
     lastAlert |-> "none"]

\* A modal form or overlay covers the navigation bar.
OverlayOpen ==
    \/ ui.showScanner \/ ui.isProcessing \/ ui.pendingOCRData
    \/ ui.showManualForm \/ ui.showSignPad

\* onStartScan: setShowScanner(true) mounts a DocumentScanner. The runs
\* considered are those where the getUserMedia call of a closed scanner has
\* settled before the scanner is opened again.
OpenScanner ==
    /\ ~OverlayOpen
    /\ ~scanner.lateReq
    /\ ui.scans < MaxScans
    /\ ui' = [ui EXCEPT !.showScanner = TRUE, !.scans = @ + 1]
    /\ scanner' = [ScannerMounted EXCEPT !.torch = scanner.torch,
                                         !.live = scanner.live,
                                         !.lateReq = scanner.lateReq]
    /\ UNCHANGED <<frame, caps>>
    /\ UNCHANGED <<ledVars, gens, recog>>

\* The close button: onClose = setShowScanner(false) unmounts it.
CloseScanner ==
    /\ ui.showScanner
    /\ ui' = [ui EXCEPT !.showScanner = FALSE]
    /\ scanner' = Unmount(scanner)
    /\ UNCHANGED <<frame, caps>>
    /\ UNCHANGED <<ledVars, gens, recog>>

\* getUserMedia resolves: setStream(s), video.srcObject = s.
CameraGranted ==
    /\ scanner.mounted /\ ~scanner.stream
    /\ \E cap \in BOOLEAN :
          scanner' = [scanner EXCEPT !.stream = TRUE, !.torchCapable = cap,
                                     !.live = TRUE]
    /\ UNCHANGED <<frame, caps, ui>>
    /\ UNCHANGED <<ledVars, gens, recog>>

\* getUserMedia resolves for a scanner that was closed meanwhile: setStream
\* on the unmounted component and videoRef.current = null do nothing, and
\* the stream stays as getUserMedia gave it.
CameraGrantedLate ==
    /\ scanner.lateReq
    /\ scanner' = [scanner EXCEPT !.lateReq = FALSE, !.live = TRUE]
    /\ UNCHANGED <<frame, caps, ui>>
    /\ UNCHANGED <<ledVars, gens, recog>>

\* getUserMedia rejects for a scanner that was closed meanwhile: alert and
\* onClose(), which hides whichever scanner is shown.
CameraDeniedLate ==
    /\ scanner.lateReq
    /\ ui' = [ui EXCEPT !.showScanner = FALSE, !.lastAlert = "camera"]
    /\ scanner' = [Unmount(scanner) EXCEPT !.lateReq = scanner.mounted /\ ~scanner.stream]
    /\ UNCHANGED <<frame, caps>>
    /\ UNCHANGED <<ledVars, gens, recog>>

\* getUserMedia rejects: alert and onClose().
CameraDenied ==
    /\ scanner.mounted /\ ~scanner.stream
    /\ ui' = [ui EXCEPT !.showScanner = FALSE, !.lastAlert = "camera"]
    /\ scanner' = Unmount(scanner)
    /\ UNCHANGED <<frame, caps>>
    /\ UNCHANGED <<ledVars, gens, recog>>

\* The video element decodes its first frame (readyState >= 2).
VideoReady ==
    /\ scanner.mounted /\ scanner.stream /\ ~scanner.ready
    /\ scanner' = [scanner EXCEPT !.ready = TRUE]
    /\ UNCHANGED <<frame, caps, ui>>
    /\ UNCHANGED <<ledVars, gens, recog>>

\* setIsCapturing(true) at the start of capturePhoto.
IsCapturingOnStart_Missing == FALSE

IsCapturingOnStart == TRUE

\* The capture button is enabled, and capturePhoto's guard passes.
CanCapture == scanner.mounted /\ ~scanner.isCapturing

\* A click on the capture button: capturePhoto up to its first await. The
\* state update is committed before the next event is handled.
CapturePhoto ==
    /\ CanCapture
    /\ Len(caps) < MaxCaptures
    /\ scanner' = [scanner EXCEPT !.isCapturing = IsCapturingOnStart]
    /\ caps' = Append(caps, [scan |-> ui.scans, pc |-> "torchOn",
                             stream |-> scanner.stream,
                             capable |-> scanner.torchCapable, crop |-> NoCrop,
                             delivered |-> 0, outcome |-> "none", off |-> "none",
                             end |-> "none"])
    /\ UNCHANGED <<frame, ui>>
    /\ UNCHANGED <<ledVars, gens, recog>>

\* The scanner instance that started capture i is still the one shown.
SameScanner(i) == scanner.mounted /\ caps[i].scan = ui.scans

\* applyTorch(state) of the closure of capture i: what the hardware flash
\* becomes, given whether applyConstraints succeeded.
TorchAfter(i, state, ok) ==
    IF caps[i].stream /\ caps[i].capable /\ ok THEN state ELSE scanner.torch

\* How a capture leaves its controller when its handler has run its last
\* statement: Idle (isCapturing and flashUI false), not Idle, or unmounted.
EndOf(i, sc) ==
    IF ~SameScanner(i) THEN "gone"
    ELSE IF ~sc.isCapturing /\ ~sc.flashUI THEN "idle" ELSE "busy"

IsCapturingOnFail_Stuck == TRUE

\* setIsCapturing(false) on the failure path.
IsCapturingOnFail == FALSE

\* await applyTorch(true) returns; setFlashUI(true); the settle timer starts.
TorchOnDone(i) ==
    /\ caps[i].pc = "torchOn"
    /\ \E ok \in BOOLEAN :
          scanner' = [scanner EXCEPT !.torch = TorchAfter(i, TRUE, ok),
                                     !.flashUI = IF SameScanner(i) THEN TRUE ELSE @]
    /\ caps' = [caps EXCEPT ![i].pc = "settle"]
    /\ UNCHANGED <<frame, ui>>
    /\ UNCHANGED <<ledVars, gens, recog>>

\* The 250 ms timer fires: getContext, the readiness test, the crop
\* geometry, the canvas size and drawImage.
SettleDone(i) ==
    /\ caps[i].pc = "settle"
    /\ \E outcome \in {"ok", "noContext", "throws"} :
          caps' = [caps EXCEPT ![i] =
              IF ~SameScanner(i)
              THEN [@ EXCEPT !.pc = "threw", !.outcome = "closed",
                             !.end = EndOf(i, scanner)]
              ELSE IF outcome = "noContext" \/ ~scanner.ready
                   THEN [@ EXCEPT !.pc = "torchOffFail", !.off = "requested",
                                  !.outcome = "notReady"]
              ELSE IF outcome = "throws"
                   THEN [@ EXCEPT !.pc = "threw", !.crop = CropRect(frame),
                                  !.outcome = "throws", !.end = EndOf(i, scanner)]
              ELSE [@ EXCEPT !.pc = "torchOffOk", !.crop = CropRect(frame),
                             !.off = "requested", !.outcome = "ok"]]
    /\ UNCHANGED <<frame, scanner, ui>>
    /\ UNCHANGED <<ledVars, gens, recog>>

\* await applyTorch(false) returns on the success path: setFlashUI(false),
\* toDataURL and onCapture, which is App.handleCapture up to its await.
TorchOffDoneOk(i) ==
    /\ caps[i].pc = "torchOffOk"
    /\ \E ok \in BOOLEAN :
          /\ scanner' = [Unmount(scanner) EXCEPT !.torch = TorchAfter(i, FALSE, ok)]
          /\ caps' = [caps EXCEPT ![i].pc = "done", ![i].delivered = @ + 1,
                                  ![i].end = EndOf(i, [scanner EXCEPT !.flashUI = FALSE])]
    /\ ui' = [ui EXCEPT !.showScanner = FALSE, !.isProcessing = TRUE,
                        !.analyses = @ + 1]
    /\ UNCHANGED frame
    /\ UNCHANGED <<ledVars, gens, recog>>

\* await applyTorch(false) returns on the failure path:
\* setIsCapturing(false), setFlashUI(false).
TorchOffDoneFail(i) ==
    /\ caps[i].pc = "torchOffFail"
    /\ \E ok \in BOOLEAN :
          /\ scanner' = IF SameScanner(i)
                        THEN [scanner EXCEPT !.torch = TorchAfter(i, FALSE, ok),
                                             !.isCapturing = IsCapturingOnFail,
                                             !.flashUI = FALSE]
                        ELSE [scanner EXCEPT !.torch = TorchAfter(i, FALSE, ok)]
          /\ caps' = [caps EXCEPT ![i].pc = "done",
                                  ![i].end = EndOf(i, scanner')]
    /\ UNCHANGED <<frame, ui>>
    /\ UNCHANGED <<ledVars, gens, recog>>

\* analyzeReceipt settles inside handleCapture: a draft on success, the
\* manual form on failure, and isProcessing cleared either way.
AnalyzeDone ==
    /\ ui.analyses > 0
    /\ \E ok \in BOOLEAN :
          ui' = [ui EXCEPT !.analyses = @ - 1, !.isProcessing = FALSE,
                           !.pendingOCRData = IF ok THEN TRUE ELSE @,
                           !.showManualForm = IF ok THEN @ ELSE TRUE,
                           !.lastAlert = IF ok THEN @ ELSE "scanInconclusive"]
    /\ UNCHANGED <<frame, scanner, caps>>
    /\ UNCHANGED <<ledVars, gens, recog>>

\* The review form or the manual form is closed.
CloseForm ==
    /\ ui.pendingOCRData \/ ui.showManualForm
    /\ ui' = [ui EXCEPT !.pendingOCRData = FALSE, !.showManualForm = FALSE]
    /\ UNCHANGED <<frame, scanner, caps>>
    /\ UNCHANGED <<ledVars, gens, recog>>

----------------------------------------------------------------------------
(* The ledger store: App state, localStorage and the blob store *)

Ids == 1..MaxIds
GeneratedIds == {1, 2}              \* ids addExpense draws in this session
Amounts == {200, 400, 800}          \* entry amounts of the report runs
\* A JavaScript number, or the NaN / undefined that `|| 0` replaces.
NumV(n) == [nan |-> FALSE, value |-> n]
NaNV == [nan |-> TRUE, value |-> 0]

\* parseFloat on the text of the amount input (type="number", no min).
parseFloat(text) ==
    CASE text = "200" -> NumV(200)
      [] text = "400" -> NumV(400)
      [] text = "-50" -> NumV(0 - 50)
      [] OTHER -> NaNV

\* v || 0
OrZero(v) == IF v.nan THEN 0 ELSE v.value

\* handleSubmit: amount: parseFloat(formData.amount) || 0
FormAmount(text) == OrZero(parseFloat(text))

FormAmounts == {"200", "-50"}       \* text typed into the edit form
NewAmounts == {"400"}               \* text typed into the entry form
ReadAmounts == {NaNV}               \* result.amount of analyzeReceipt
NewUrls == {"imgB"}                 \* images attached in this session
ReceivedAmounts == {0, 1000}
NoUrl == "none"                     \* receiptUrl / signatureUrl undefined or ''
DataUrls == {"imgA", "imgB", "bad"} \* data: URLs; "bad" is one no decoder reads
Absent == "absent"

INITIAL_METADATA == [receivedAmount |-> 0, signatureUrl |-> NoUrl]

NoTask == [kind |-> "none"]

\* A localStorage record: present with its parsed value, or missing.
Saved(v) == [present |-> TRUE, value |-> v]
NullData == [present |-> FALSE, value |-> <<>>]
NullMeta == [present |-> FALSE, value |-> INITIAL_METADATA]

Range(q) == {q[i] : i \in 1..Len(q)}

RECURSIVE Filter(_, _)
\* prev.filter(e => e.id !== id)
Filter(q, id) ==
    IF q = <<>> THEN <<>>
    ELSE IF Head(q).id = id THEN Filter(Tail(q), id)
    ELSE <<Head(q)>> \o Filter(Tail(q), id)

Merge_All(q, id, updates) ==
    [i \in 1..Len(q) |->
        [q[i] EXCEPT !.amount = updates.amount, !.receiptUrl = updates.receiptUrl]]

\* prev.map(e => e.id === id ? { ...e, ...updates } : e)
Merge(q, id, updates) ==
    [i \in 1..Len(q) |->
        IF q[i].id = id
        THEN [q[i] EXCEPT !.amount = updates.amount, !.receiptUrl = updates.receiptUrl]
        ELSE q[i]]

MetadataOnly_WithPayload(q) == q

\* expenses.map(({ receiptUrl, ...rest }) => rest)
MetadataOnly(q) == [i \in 1..Len(q) |-> [q[i] EXCEPT !.receiptUrl = NoUrl]]

\* The persistence effect, run after every render that changed its inputs.
Persist(st, exps, meta) ==
    IF st.isLoaded
    THEN [st EXCEPT !.data = Saved(MetadataOnly(exps)), !.meta = Saved(meta)]
    ELSE st

IsDataUrl(url) == url \in DataUrls

FreeSlots == {i \in 1..MaxOps : tasks[i] = NoTask}
FreeSlot == CHOOSE i \in FreeSlots : \A j \in FreeSlots : i <= j

\* Ids that have an entry or a payload.
KnownIds == {e.id : e \in Range(expenses)} \cup {id \in Ids : blob[id] # Absent}

\* History bookkeeping: another operation ran during the add/delete pair,
\* or was started after the clear.
AddDelOther ==
    IF addDel.stage \in {"adding", "added"} THEN [addDel EXCEPT !.stage = "void"]
    ELSE addDel

UpdDelOther ==
    IF updDel.stage \in {"updating", "racing"} THEN [stage |-> "idle"] ELSE updDel

ClrOther == IF clr.stage = "pending" THEN [clr EXCEPT !.stage = "void"] ELSE clr

\* The blob store behind dbService: put, get, delete and purgeAll on keys
\* that are entry ids; get on a key without a payload gives Absent.
saveImage(b, id, url) == [b EXCEPT ![id] = url]
getImage(b, id) == b[id]
deleteImage(b, id) == [b EXCEPT ![id] = Absent]
clearAllImages(b) == [id \in DOMAIN b |-> Absent]

NewTask(kind, id, amount, url) ==
    [kind |-> kind, id |-> id, amount |-> amount, url |-> url, pre |-> FALSE]

\* The mount effect loadSavedData and the first run of the persistence effect.
LoadSavedData ==
    /\ ~store.isLoaded
    /\ expenses' = IF store.data.present THEN store.data.value ELSE expenses
    /\ metadata' = IF store.meta.present THEN store.meta.value ELSE metadata
    /\ store' = Persist([store EXCEPT !.isLoaded = TRUE], expenses', metadata')
    /\ UNCHANGED <<blob, tasks, addDel, updDel, clr, ops, ui>>
    /\ UNCHANGED <<capVars, gens, recog>>

\* addExpense up to its await, or to its end when there is no payload.
AddExpense ==
    /\ store.isLoaded
    /\ ops < MaxOps
    /\ ops' = ops + 1
    /\ \E id \in GeneratedIds, amount \in {FormAmount(t) : t \in NewAmounts}, url \in {NoUrl} \cup NewUrls :
          /\ IF IsDataUrl(url)
             THEN /\ tasks' = [tasks EXCEPT ![FreeSlot] = NewTask("add", id, amount, url)]
                  /\ UNCHANGED <<expenses, store>>
             ELSE /\ expenses' = <<[id |-> id, amount |-> amount, receiptUrl |-> url]>>
                                    \o expenses
                  /\ store' = Persist(store, expenses', metadata)
                  /\ UNCHANGED tasks
          /\ addDel' = IF addDel.stage = "idle"
                       THEN [stage |-> IF IsDataUrl(url) THEN "adding" ELSE "added",
                             id |-> id, slot |-> IF IsDataUrl(url) THEN FreeSlot ELSE 0,
                             before |-> Range(expenses),
                             after |-> {}, deletes |-> 0]
                       ELSE AddDelOther
    /\ updDel' = UpdDelOther
    /\ clr' = ClrOther
    /\ UNCHANGED <<metadata, blob, ui>>
    /\ UNCHANGED <<capVars, gens, recog>>

\* saveImage settles inside addExpense: the entry is prepended on success.
AddSaved(t) ==
    /\ tasks[t].kind = "add"
    /\ \E ok \in BOOLEAN :
          /\ blob' = IF ok THEN saveImage(blob, tasks[t].id, tasks[t].url) ELSE blob
          /\ expenses' = IF ok
                         THEN <<[id |-> tasks[t].id, amount |-> tasks[t].amount,
                                 receiptUrl |-> tasks[t].url]>> \o expenses
                         ELSE expenses
          /\ addDel' = IF addDel.stage = "adding" /\ addDel.slot = t
                       THEN [addDel EXCEPT !.stage = IF ok THEN "added" ELSE "void"]
                       ELSE AddDelOther
    /\ store' = Persist(store, expenses', metadata)
    /\ tasks' = [tasks EXCEPT ![t] = NoTask]
    /\ UNCHANGED <<metadata, updDel, clr, ops, ui>>
    /\ UNCHANGED <<capVars, gens, recog>>

\* The edit form is submitted for entry i: updateExpense up to its await.
UpdateExpense ==
    /\ store.isLoaded
    /\ ops < MaxOps
    /\ ops' = ops + 1
    /\ \E i \in 1..Len(expenses), amount \in {FormAmount(t) : t \in FormAmounts} :
          LET id == expenses[i].id
              updates == [amount |-> amount, receiptUrl |-> expenses[i].receiptUrl]
          IN  /\ expenses' = Merge(expenses, id, updates)
              /\ IF IsDataUrl(updates.receiptUrl)
                 THEN tasks' = [tasks EXCEPT ![FreeSlot] =
                                      NewTask("update", id, amount, updates.receiptUrl)]
                 ELSE UNCHANGED tasks
              /\ updDel' = IF /\ updDel.stage = "idle"
                              /\ IsDataUrl(updates.receiptUrl)
                              /\ \A t \in 1..MaxOps : tasks[t] = NoTask
                           THEN [stage |-> "updating", id |-> id, uslot |-> FreeSlot,
                                 dslot |-> 0, saved |-> "pending", deleted |-> "pending"]
                           ELSE UpdDelOther
    /\ store' = Persist(store, expenses', metadata)
    /\ addDel' = AddDelOther
    /\ clr' = ClrOther
    /\ UNCHANGED <<metadata, blob, ui>>
    /\ UNCHANGED <<capVars, gens, recog>>

\* saveImage settles inside updateExpense.
UpdateSaved(t) ==
    /\ tasks[t].kind = "update"
    /\ \E ok \in BOOLEAN :
          /\ blob' = IF ok THEN saveImage(blob, tasks[t].id, tasks[t].url) ELSE blob
          /\ updDel' = IF updDel.stage \in {"updating", "racing"} /\ updDel.uslot = t
                       THEN [updDel EXCEPT !.saved = IF ok THEN "ok" ELSE "failed"]
                       ELSE updDel
    /\ tasks' = [tasks EXCEPT ![t] = NoTask]
    /\ UNCHANGED <<expenses, metadata, store, addDel, clr, ops, ui>>
    /\ UNCHANGED <<capVars, gens, recog>>

\* The delete button of entry i: deleteExpense up to its await.
DeleteExpense ==
    /\ store.isLoaded
    /\ ops < MaxOps
    /\ ops' = ops + 1
    /\ \E i \in 1..Len(expenses) :
          LET id == expenses[i].id
          IN  /\ expenses' = Filter(expenses, id)
              /\ tasks' = [tasks EXCEPT ![FreeSlot] = NewTask("delete", id, 0, NoUrl)]
              /\ addDel' = IF addDel.stage = "added" /\ addDel.id = id
                           THEN [addDel EXCEPT !.stage = "done",
                                               !.after = Range(Filter(expenses, id)),
                                               !.deletes = @ + 1]
                           ELSE AddDelOther
              /\ updDel' = IF updDel.stage = "updating" /\ updDel.id = id
                           THEN [updDel EXCEPT !.stage = "racing", !.dslot = FreeSlot]
                           ELSE UpdDelOther
    /\ store' = Persist(store, expenses', metadata)
    /\ clr' = ClrOther
    /\ UNCHANGED <<metadata, blob, ui>>
    /\ UNCHANGED <<capVars, gens, recog>>

\* deleteImage settles inside deleteExpense.
DeleteDone(t) ==
    /\ tasks[t].kind = "delete"
    /\ \E ok \in BOOLEAN :
          /\ blob' = IF ok THEN deleteImage(blob, tasks[t].id) ELSE blob
          /\ updDel' = IF updDel.stage = "racing" /\ updDel.dslot = t
                       THEN [updDel EXCEPT !.deleted = IF ok THEN "ok" ELSE "failed"]
                       ELSE updDel
    /\ tasks' = [tasks EXCEPT ![t] = NoTask]
    /\ UNCHANGED <<expenses, metadata, store, addDel, clr, ops, ui>>
    /\ UNCHANGED <<capVars, gens, recog>>

\* handleClearData, confirmed, up to its await; the persistence effect runs
\* after the removeItem calls.
ClearData ==
    /\ store.isLoaded
    /\ ops < MaxOps
    /\ ops' = ops + 1
    /\ expenses' = <<>>
    /\ metadata' = INITIAL_METADATA
    /\ store' = Persist([store EXCEPT !.data = NullData, !.meta = NullMeta],
                        expenses', metadata')
    /\ tasks' = [i \in 1..MaxOps |->
                    IF i = FreeSlot
                    THEN [NewTask("clear", 0, 0, NoUrl) EXCEPT !.pre = clr.stage = "idle"]
                    ELSE IF tasks[i] = NoTask THEN NoTask
                    ELSE [tasks[i] EXCEPT !.pre = (clr.stage = "idle") \/ @]]
    /\ clr' = IF clr.stage = "idle"
              THEN [stage |-> "pending", ids |-> KnownIds, purged |-> FALSE,
                    removed |-> [id \in Ids |->
                                    IF id \in {e.id : e \in Range(expenses)}
                                    THEN getImage(blob, id) ELSE Absent],
                    purge |-> "pending"]
              ELSE ClrOther
    /\ addDel' = AddDelOther
    /\ updDel' = UpdDelOther
    /\ UNCHANGED <<blob, ui>>
    /\ UNCHANGED <<capVars, gens, recog>>

\* handleClearData, not confirmed.
ClearDataCancelled ==
    /\ store.isLoaded
    /\ UNCHANGED <<ledVars, ui>>
    /\ UNCHANGED <<capVars, gens, recog>>

\* clearAllImages settles inside handleClearData.
ClearDone(t) ==
    /\ tasks[t].kind = "clear"
    /\ \E ok \in BOOLEAN :
          /\ blob' = IF ok THEN clearAllImages(blob) ELSE blob
          /\ ui' = IF ok THEN [ui EXCEPT !.lastAlert = "cleared"] ELSE ui
          /\ clr' = IF clr.stage # "idle" /\ tasks[t].pre
                    THEN [clr EXCEPT !.purged = clr.stage = "pending" /\ ok,
                                     !.purge = IF ok THEN "done" ELSE "failed"]
                    ELSE clr
    /\ tasks' = [tasks EXCEPT ![t] = NoTask]
    /\ UNCHANGED <<expenses, metadata, store, addDel, updDel, ops>>
    /\ UNCHANGED <<capVars, gens, recog>>

\* ReceiptUploader.handleFileUpload: the file is read and analyzeReceipt is
\* awaited.
StartUpload ==
    /\ store.isLoaded
    /\ ops < MaxOps
    /\ ops' = ops + 1
    /\ \E url \in NewUrls :
          tasks' = [tasks EXCEPT ![FreeSlot] = NewTask("upload", 0, 0, url)]
    /\ addDel' = AddDelOther
    /\ updDel' = UpdDelOther
    /\ clr' = ClrOther
    /\ UNCHANGED <<expenses, metadata, store, blob, ui>>
    /\ UNCHANGED <<capVars, gens, recog>>

\* analyzeReceipt settles inside handleFileUpload: onAddExpense (addExpense,
\* up to its await) on success, an alert on failure.
UploadAnalyzed(t) ==
    /\ tasks[t].kind = "upload"
    /\ \/ /\ \E id \in GeneratedIds, amount \in {OrZero(v) : v \in ReadAmounts} :
                tasks' = [tasks EXCEPT ![t] =
                             [NewTask("add", id, amount, tasks[t].url)
                                 EXCEPT !.pre = tasks[t].pre]]
          /\ UNCHANGED ui
       \/ /\ tasks' = [tasks EXCEPT ![t] = NoTask]
          /\ ui' = [ui EXCEPT !.lastAlert = "analysisFailed"]
    /\ addDel' = AddDelOther
    /\ UNCHANGED <<expenses, metadata, store, blob, updDel, clr, ops>>
    /\ UNCHANGED <<capVars, gens, recog>>

\* The metadata form: setMetadata({...metadata, receivedAmount: ...}).
EditMetadata ==
    /\ store.isLoaded
    /\ ops < MaxOps
    /\ ops' = ops + 1
    /\ \E amount \in ReceivedAmounts :
          metadata' = [metadata EXCEPT !.receivedAmount = amount]
    /\ store' = Persist(store, expenses, metadata')
    /\ clr' = ClrOther
    /\ UNCHANGED <<expenses, blob, tasks, addDel, updDel, ui>>
    /\ UNCHANGED <<capVars, gens, recog>>

\* handleSignatureSave.
SaveSignature ==
    /\ store.isLoaded
    /\ ui.showSignPad
    /\ metadata' = [metadata EXCEPT !.signatureUrl = "sig"]
    /\ store' = Persist(store, expenses, metadata')
    /\ ui' = [ui EXCEPT !.showSignPad = FALSE]
    /\ clr' = ClrOther
    /\ UNCHANGED <<expenses, blob, tasks, addDel, updDel, ops>>
    /\ UNCHANGED <<capVars, gens, recog>>

\* The signature buttons and the pad's close button.
OpenSignPad ==
    /\ ~OverlayOpen
    /\ ui' = [ui EXCEPT !.showSignPad = TRUE]
    /\ UNCHANGED ledVars
    /\ UNCHANGED <<capVars, gens, recog>>

CloseSignPad ==
    /\ ui.showSignPad
    /\ ui' = [ui EXCEPT !.showSignPad = FALSE]
    /\ UNCHANGED ledVars
    /\ UNCHANGED <<capVars, gens, recog>>

----------------------------------------------------------------------------
(* The report assembler: generatePDF *)

RECURSIVE ReduceSum(_, _)
\* expenses.reduce((s, e) => s + e.amount, 0)
ReduceSum(q, acc) == IF q = <<>> THEN acc ELSE ReduceSum(Tail(q), acc + Head(q).amount)

SummaryKind_Strict(balance) == IF balance > 0 THEN "surplus" ELSE "shortage"

\* if (balance >= 0) Surplus (To Return) else Shortage (Reimburse)
SummaryKind(balance) == IF balance >= 0 THEN "surplus" ELSE "shortage"

\* The checks of the App copy kept in geminiService.ts: no test of the
\* ledger, and the signature pad without a prompt.
GenerateCheck_Embedded(exps, meta) ==
    IF meta.signatureUrl = NoUrl THEN "none" ELSE "ok"

\* The two validations at the top of generatePDF: the alert raised, or "ok".
GenerateCheck(exps, meta) ==
    IF Len(exps) = 0 THEN "noExpenses"
    ELSE IF meta.signatureUrl = NoUrl THEN "signatureRequired"
    ELSE "ok"

\* Height in mm of a portrait a4 page, and of the image addImage draws.
PageHeight == 297
ImageHeight == 75

\* doc.addPage('a4', 'p') before the appendix heading: the orientation the
\* call asks for.
AppendixPage == "p"

OverflowPage_Default == "default"

\* doc.addPage('a4', 'p') when currentY > 230.
OverflowPage == "p"

\* generatePDF from `new jsPDF` to the first `await getImage`: the closure's
\* expenses and metadata, the summary block, the landscape main page and
\* the first portrait appendix page.
NewGen(exps, meta) ==
    LET totalSpent == ReduceSum(exps, 0)
        balance == meta.receivedAmount - totalSpent
    IN  [pc |-> IF Len(exps) > 0 THEN "getImage" ELSE "saved", idx |-> 1, exps |-> exps, meta |-> meta,
         totalSpent |-> totalSpent, balance |-> balance,
         summary |-> SummaryKind(balance), shown |-> Abs(balance),
         rows |-> Len(exps), pages |-> <<"l", AppendixPage>>, currentY |-> 35,
         records |-> <<>>, resolveFailed |-> {}, renderFailed |-> {}]

\* A click on a Generate Report button, the run having room for `limit`
\* invocations that pass the checks.
Generate(limit) ==
    /\ ~OverlayOpen
    /\ LET check == GenerateCheck(expenses, metadata)
       IN  IF check = "ok"
           THEN /\ Len(gens) < limit
                /\ gens' = Append(gens, NewGen(expenses, metadata))
                /\ UNCHANGED ui
           ELSE /\ ui' = [ui EXCEPT !.lastAlert = check,
                                    !.showSignPad = (Len(expenses) # 0) \/ @]
                /\ UNCHANGED gens
    /\ UNCHANGED ledVars
    /\ UNCHANGED <<capVars, recog>>

GeneratePDF == Generate(MaxReports)

\* A click on a Generate Report button in a run where the button is clicked
\* again: nothing disables the buttons while generatePDF is suspended.
GeneratePDFAgain == Generate(MaxClicks)

\* if (!img || !img.startsWith('data:')) continue;
AppendixSkip(gn, e) == [gn EXCEPT !.resolveFailed = @ \cup {gn.idx}]

\* One pass of the appendix loop body, from the value getImage gave (or its
\* exception) to the end of the try/catch.
AppendixBody(gn, img, threw) ==
    LET e == gn.exps[gn.idx]
    IN  IF threw
        THEN [gn EXCEPT !.records = Append(@, [kind |-> "placeholder", id |-> e.id,
                                               page |-> Len(gn.pages), y |-> gn.currentY]),
                        !.currentY = @ + 10,
                        !.resolveFailed = @ \cup {gn.idx}]
        ELSE IF ~IsDataUrl(img) THEN AppendixSkip(gn, e)
        ELSE LET newPage == gn.currentY > 230
                 pages == IF newPage THEN Append(gn.pages, OverflowPage) ELSE gn.pages
                 y0 == IF newPage THEN 20 ELSE gn.currentY
             IN  IF img = "bad"
                 THEN [gn EXCEPT !.pages = pages,
                                 !.records = Append(@, [kind |-> "placeholder", id |-> e.id,
                                                        page |-> Len(pages), y |-> y0 + 4]),
                                 !.currentY = y0 + 4 + 10,
                                 !.renderFailed = @ \cup {gn.idx}]
                 ELSE [gn EXCEPT !.pages = pages,
                                 !.records = Append(@, [kind |-> "image", id |-> e.id,
                                                        page |-> Len(pages), y |-> y0]),
                                 !.currentY = y0 + 4 + 85]

\* getImage settles for the entry the loop is at; after the last entry the
\* document is saved.
AppendixStep(g) ==
    /\ gens[g].pc = "getImage"
    /\ \E threw \in BOOLEAN :
          LET gn == AppendixBody(gens[g],
                                 getImage(blob, gens[g].exps[gens[g].idx].id), threw)
              last == gn.idx = Len(gn.exps)
          IN  gens' = [gens EXCEPT ![g] =
                          [gn EXCEPT !.idx = @ + 1,
                                     !.pc = IF last THEN "saved" ELSE "getImage"]]
    /\ UNCHANGED <<ledVars, ui>>
    /\ UNCHANGED <<capVars, recog>>

----------------------------------------------------------------------------
(* One receipt from recognition to addExpense: the scan path (handleCapture, *)
(* the review or manual form) and the upload path (handleFileUpload)         *)

Undefined == "undefined"
Today == "today"
CapturedImage == "data:captured"

\* x || dflt on a string field: undefined and '' give the default.
OrElse(x, dflt) == IF x \in {Undefined, ""} THEN dflt ELSE x

\* What JSON.parse(response.text) can carry: any field present or omitted.
Responses ==
    [title : {"Store", Undefined}, date : {"2024-01-05", Undefined},
     amount : {NumV(400), NaNV}, currency : {"EUR", Undefined},
     category : {"Food", Undefined}]

NoEntry == [title |-> Undefined]

RecogIdle ==
    [pc |-> "idle", path |-> "none", via |-> "none", response |-> NoEntry,
     initialData |-> NoEntry, entry |-> NoEntry]

\* handleCapture or handleFileUpload up to await analyzeReceipt.
StartRecognition ==
    /\ recog.pc = "idle"
    /\ \E path \in {"scan", "upload"} :
          recog' = [RecogIdle EXCEPT !.pc = "analyzing", !.path = path]
    /\ UNCHANGED <<capVars, ledVars, ui, gens>>

\* handleCapture: currency: result.currency || 'PHP'
ScanCurrency == "PHP"

\* handleFileUpload: currency: result.currency || 'USD'
UploadCurrency == "USD"

\* handleCapture: the draft put in pendingOCRData.
ScanDraft(result) ==
    [title |-> result.title, amount |-> result.amount, category |-> result.category,
     date |-> result.date, receiptUrl |-> CapturedImage,
     currency |-> OrElse(result.currency, ScanCurrency)]

\* handleFileUpload: the entry handed to onAddExpense.
UploadEntry(result) ==
    [title |-> OrElse(result.title, "Uploaded Receipt"),
     amount |-> OrZero(result.amount),
     currency |-> OrElse(result.currency, UploadCurrency),
     category |-> OrElse(result.category, "Miscellaneous"),
     date |-> OrElse(result.date, Today),
     receiptUrl |-> CapturedImage]

\* App line 475: the manual form is rendered without initialData.
ManualInitialData ==
    [title |-> Undefined, amount |-> NaNV, category |-> Undefined,
     date |-> Undefined, receiptUrl |-> Undefined, currency |-> Undefined]

\* ExpenseForm: useState(formData) from initialData, then handleSubmit's
\* payload. The title and amount inputs are required: the user types them
\* when the form opens with them empty.
FormPayload(initialData) ==
    [title |-> OrElse(initialData.title, "typed title"),
     amount |-> IF initialData.amount.nan THEN FormAmount("400")
                ELSE initialData.amount.value,
     category |-> OrElse(initialData.category, "Miscellaneous"),
     date |-> OrElse(initialData.date, Today),
     currency |-> OrElse(initialData.currency, "PHP"),
     receiptUrl |-> OrElse(initialData.receiptUrl, "")]

\* analyzeReceipt resolves: a draft to review on the scan path, onAddExpense
\* at once on the upload path.
RecognitionOk ==
    /\ recog.pc = "analyzing"
    /\ \E result \in Responses :
          recog' = IF recog.path = "scan"
                   THEN [recog EXCEPT !.pc = "form", !.via = "review",
                                      !.response = result,
                                      !.initialData = ScanDraft(result)]
                   ELSE [recog EXCEPT !.pc = "added", !.via = "direct",
                                      !.response = result,
                                      !.entry = UploadEntry(result)]
    /\ UNCHANGED <<capVars, ledVars, ui, gens>>

\* analyzeReceipt rejects: the manual form on the scan path, an alert on the
\* upload path.
RecognitionFailed ==
    /\ recog.pc = "analyzing"
    /\ recog' = IF recog.path = "scan"
                THEN [recog EXCEPT !.pc = "form", !.via = "manual",
                                   !.initialData = ManualInitialData]
                ELSE [recog EXCEPT !.pc = "dropped"]
    /\ UNCHANGED <<capVars, ledVars, ui, gens>>

\* The form is submitted: handleSubmit calls onAdd (addExpense).
SubmitForm ==
    /\ recog.pc = "form"
    /\ recog' = [recog EXCEPT !.pc = "added", !.entry = FormPayload(recog.initialData)]
    /\ UNCHANGED <<capVars, ledVars, ui, gens>>

\* addExpense on the payload, its await included: the payload is saved under
\* the new id when receiptUrl is a data: URL, then the record is prepended;
\* a rejected saveImage ends addExpense before the record is made.
AddToLedger ==
    /\ recog.pc = "added"
    /\ \E id \in GeneratedIds, ok \in BOOLEAN :
          LET data == recog.entry
              hasPayload == data.receiptUrl = CapturedImage
              newRecord == [id |-> id, title |-> data.title, amount |-> data.amount,
                            category |-> data.category, date |-> data.date,
                            currency |-> data.currency, receiptUrl |-> data.receiptUrl]
          IN  IF hasPayload /\ ~ok
              THEN /\ recog' = [recog EXCEPT !.pc = "dropped"]
                   /\ UNCHANGED <<expenses, blob, store>>
              ELSE /\ blob' = IF hasPayload THEN saveImage(blob, id, data.receiptUrl)
                               ELSE blob
                   /\ expenses' = <<newRecord>> \o expenses
                   /\ store' = Persist(store, expenses', metadata)
                   /\ recog' = [recog EXCEPT !.pc = "saved"]
    /\ UNCHANGED <<metadata, tasks, addDel, updDel, clr, ops, ui>>
    /\ UNCHANGED <<capVars, gens>>

\* The form is closed without submitting.
DiscardForm ==
    /\ recog.pc = "form"
    /\ recog' = [recog EXCEPT !.pc = "dropped"]
    /\ UNCHANGED <<capVars, ledVars, ui, gens>>

----------------------------------------------------------------------------
(* Specifications *)

\* What an earlier session can have left in localStorage and the blob store.
SavedLedgers == {NullData, Saved(<<[id |-> 1, amount |-> 200, receiptUrl |-> NoUrl]>>)}
SavedMetadata == {NullMeta, Saved([receivedAmount |-> 1000, signatureUrl |-> "sig"])}

InitLedger ==
    /\ expenses = <<>>
    /\ metadata = INITIAL_METADATA
    /\ \E data \in SavedLedgers, meta \in SavedMetadata :
          store = [isLoaded |-> FALSE, data |-> data, meta |-> meta]
    /\ \E img \in {Absent, "imgA"} : blob = [id \in Ids |-> IF id = 1 THEN img ELSE Absent]
    /\ tasks = [i \in 1..MaxOps |-> NoTask]
    /\ addDel = [stage |-> "idle"]
    /\ updDel = [stage |-> "idle"]
    /\ clr = [stage |-> "idle"]
    /\ ops = 0
    /\ ui = UiInit
    /\ frame = ScenarioFrame
    /\ scanner = ScannerUnmounted
    /\ caps = <<>>
    /\ gens = <<>>
    /\ recog = RecogIdle

NextLedger ==
    \/ LoadSavedData
    \/ AddExpense
    \/ UpdateExpense
    \/ DeleteExpense
    \/ ClearData
    \/ ClearDataCancelled
    \/ StartUpload
    \/ EditMetadata
    \/ \E t \in 1..MaxOps : AddSaved(t)
    \/ \E t \in 1..MaxOps : UpdateSaved(t)
    \/ \E t \in 1..MaxOps : DeleteDone(t)
    \/ \E t \in 1..MaxOps : ClearDone(t)
    \/ \E t \in 1..MaxOps : UploadAnalyzed(t)

SpecLedger == InitLedger /\ [][NextLedger]_vars

\* Every small ledger, metadata and blob store a loaded session can hold.
InitReport ==
    /\ \E n \in 0..MaxEntries :
          expenses \in [1..n -> [id : Ids, amount : Amounts, receiptUrl : {NoUrl}]]
    /\ \A i \in 1..Len(expenses) : expenses[i].id = ((i - 1) % MaxIds) + 1
    /\ metadata \in [receivedAmount : ReceivedAmounts, signatureUrl : {NoUrl, "sig"}]
    /\ store = [isLoaded |-> TRUE, data |-> Saved(MetadataOnly(expenses)),
                meta |-> Saved(metadata)]
    /\ blob \in [Ids -> {Absent, "imgA", "bad"}]
    /\ \A id \in Ids : id > MaxEntries => blob[id] = Absent
    /\ tasks = [i \in 1..MaxOps |-> NoTask]
    /\ addDel = [stage |-> "idle"]
    /\ updDel = [stage |-> "idle"]
    /\ clr = [stage |-> "idle"]
    /\ ops = 0
    /\ ui = UiInit
    /\ frame = ScenarioFrame
    /\ scanner = ScannerUnmounted
    /\ caps = <<>>
    /\ gens = <<>>
    /\ recog = RecogIdle

NextReport ==
    \/ GeneratePDF
    \/ \E g \in 1..Len(gens) : AppendixStep(g)
    \/ OpenSignPad
    \/ CloseSignPad
    \/ SaveSignature

SpecReport == InitReport /\ [][NextReport]_vars

InitCapture ==
    /\ frame = ScenarioFrame
    /\ scanner = ScannerUnmounted
    /\ caps = <<>>
    /\ ui = UiInit
    /\ expenses = <<>>
    /\ metadata = INITIAL_METADATA
    /\ store = [isLoaded |-> TRUE, data |-> Saved(<<>>), meta |-> Saved(INITIAL_METADATA)]
    /\ blob = [id \in Ids |-> Absent]
    /\ tasks = [i \in 1..MaxOps |-> NoTask]
    /\ addDel = [stage |-> "idle"]
    /\ updDel = [stage |-> "idle"]
    /\ clr = [stage |-> "idle"]
    /\ ops = 0
    /\ gens = <<>>
    /\ recog = RecogIdle

NextCapture ==
    \/ OpenScanner
    \/ CloseScanner
    \/ CameraGranted
    \/ CameraDenied
    \/ CameraGrantedLate
    \/ CameraDeniedLate
    \/ VideoReady
    \/ CapturePhoto
    \/ \E i \in 1..Len(caps) : TorchOnDone(i)
    \/ \E i \in 1..Len(caps) : SettleDone(i)
    \/ \E i \in 1..Len(caps) : TorchOffDoneOk(i)
    \/ \E i \in 1..Len(caps) : TorchOffDoneFail(i)
    \/ AnalyzeDone
    \/ CloseForm

SpecCapture == InitCapture /\ [][NextCapture]_vars

\* Every video and viewport size against a scanner that is streaming.
InitGeom ==
    /\ frame \in Frames
    /\ scanner = ScannerStreaming
    /\ caps = <<>>
    /\ ui = [UiInit EXCEPT !.showScanner = TRUE, !.scans = 1]
    /\ expenses = <<>>
    /\ metadata = INITIAL_METADATA
    /\ store = [isLoaded |-> TRUE, data |-> Saved(<<>>), meta |-> Saved(INITIAL_METADATA)]
    /\ blob = [id \in Ids |-> Absent]
    /\ tasks = [i \in 1..MaxOps |-> NoTask]
    /\ addDel = [stage |-> "idle"]
    /\ updDel = [stage |-> "idle"]
    /\ clr = [stage |-> "idle"]
    /\ ops = 0
    /\ gens = <<>>
    /\ recog = RecogIdle

NextGeom ==
    \/ CapturePhoto
    \/ \E i \in 1..Len(caps) : TorchOnDone(i)
    \/ \E i \in 1..Len(caps) : SettleDone(i)
    \/ \E i \in 1..Len(caps) : TorchOffDoneOk(i)
    \/ \E i \in 1..Len(caps) : TorchOffDoneFail(i)

SpecGeom == InitGeom /\ [][NextGeom]_vars

\* A signed ledger of one to MaxIds entries with distinct ids, each with an
\* image, an unreadable image or no payload in the blob store.
InitAppendix ==
    /\ \E n \in 1..MaxIds :
          expenses = [i \in 1..n |-> [id |-> i, amount |-> 200, receiptUrl |-> NoUrl]]
    /\ metadata = [receivedAmount |-> 1000, signatureUrl |-> "sig"]
    /\ store = [isLoaded |-> TRUE, data |-> Saved(MetadataOnly(expenses)),
                meta |-> Saved(metadata)]
    /\ blob \in [Ids -> {Absent, "imgA", "bad"}]
    /\ tasks = [i \in 1..MaxOps |-> NoTask]
    /\ addDel = [stage |-> "idle"]
    /\ updDel = [stage |-> "idle"]
    /\ clr = [stage |-> "idle"]
    /\ ops = 0
    /\ ui = UiInit
    /\ frame = ScenarioFrame
    /\ scanner = ScannerUnmounted
    /\ caps = <<>>
    /\ gens = <<>>
    /\ recog = RecogIdle

NextAppendix ==
    \/ GeneratePDF
    \/ \E g \in 1..Len(gens) : AppendixStep(g)

SpecAppendix == InitAppendix /\ [][NextAppendix]_vars

\* A signed ledger of one or two entries, each with an image or no payload,
\* and a user who clicks Generate Report more than once.
InitExport ==
    /\ \E n \in 1..MaxEntries :
          expenses = [i \in 1..n |-> [id |-> i, amount |-> 200, receiptUrl |-> NoUrl]]
    /\ metadata = [receivedAmount |-> 1000, signatureUrl |-> "sig"]
    /\ store = [isLoaded |-> TRUE, data |-> Saved(MetadataOnly(expenses)),
                meta |-> Saved(metadata)]
    /\ blob \in [Ids -> {Absent, "imgA"}]
    /\ \A id \in Ids : id > MaxEntries => blob[id] = Absent
    /\ tasks = [i \in 1..MaxOps |-> NoTask]
    /\ addDel = [stage |-> "idle"]
    /\ updDel = [stage |-> "idle"]
    /\ clr = [stage |-> "idle"]
    /\ ops = 0
    /\ ui = UiInit
    /\ frame = ScenarioFrame
    /\ scanner = ScannerUnmounted
    /\ caps = <<>>
    /\ gens = <<>>
    /\ recog = RecogIdle

NextExport ==
    \/ GeneratePDFAgain
    \/ \E g \in 1..Len(gens) : AppendixStep(g)

SpecExport == InitExport /\ [][NextExport]_vars

\* One receipt, either path, every shape of recognition response.
InitRecog ==
    /\ recog = RecogIdle
    /\ frame = ScenarioFrame
    /\ scanner = ScannerUnmounted
    /\ caps = <<>>
    /\ ui = UiInit
    /\ expenses = <<>>
    /\ metadata = INITIAL_METADATA
    /\ store = [isLoaded |-> TRUE, data |-> Saved(<<>>), meta |-> Saved(INITIAL_METADATA)]
    /\ blob = [id \in Ids |-> Absent]
    /\ tasks = [i \in 1..MaxOps |-> NoTask]
    /\ addDel = [stage |-> "idle"]
    /\ updDel = [stage |-> "idle"]
    /\ clr = [stage |-> "idle"]
    /\ ops = 0
    /\ gens = <<>>

NextRecog ==
    \/ StartRecognition
    \/ RecognitionOk
    \/ RecognitionFailed
    \/ SubmitForm
    \/ AddToLedger
    \/ DiscardForm

SpecRecog == InitRecog /\ [][NextRecog]_vars

----------------------------------------------------------------------------
(* Claims about the crop geometry and the capture controller *)

HasCrop(i) == caps[i].crop # NoCrop

InProgress(i) == caps[i].pc \in {"torchOn", "settle", "torchOffOk", "torchOffFail"}

SameAspect == frame.vW * frame.wH = frame.wW * frame.vH

\* C6: the source rectangle capturePhoto computes lies inside the video
\* frame: 0 <= finalSourceX, 0 <= finalSourceY, finalSourceX + finalSourceW
\* <= videoWidth and finalSourceY + finalSourceH <= videoHeight, for every
\* video and viewport size.
C6_SourceRectInsideVideo ==
    \A i \in 1..Len(caps) :
        HasCrop(i) =>
            LET c == caps[i].crop
            IN  /\ RLe(R(0), c.finalSourceX)
                /\ RLe(R(0), c.finalSourceY)
                /\ RLe(RAdd(c.finalSourceX, c.finalSourceW), R(frame.vW))
                /\ RLe(RAdd(c.finalSourceY, c.finalSourceH), R(frame.vH))

\* A crop was computed where the video is wider than the viewport and the
\* cover-fit stage clipped it.
C6_Witness ==
    \E i \in 1..Len(caps) :
        /\ HasCrop(i)
        /\ RLt(R(0), caps[i].crop.sourceX)
        /\ RLt(caps[i].crop.sourceWidth, R(frame.vW))
        /\ frame.wW = 375

\* C7: when the video aspect ratio equals the viewport aspect ratio the
\* cover-fit stage changes nothing: sourceX = 0, sourceY = 0, sourceWidth =
\* videoWidth and sourceHeight = videoHeight.
C7_CoverFitNoOpOnEqualAspect ==
    \A i \in 1..Len(caps) :
        (HasCrop(i) /\ SameAspect) =>
            LET c == caps[i].crop
            IN  /\ c.sourceX = R(0)
                /\ c.sourceY = R(0)
                /\ c.sourceWidth = R(frame.vW)
                /\ c.sourceHeight = R(frame.vH)

\* A crop was computed for a video and a viewport of the same, non-square,
\* aspect ratio and of different sizes.
C7_Witness ==
    \E i \in 1..Len(caps) :
        /\ HasCrop(i)
        /\ SameAspect
        /\ frame.vW # frame.vH
        /\ frame.vW # frame.wW

\* C8: the guide rectangle capturePhoto maps into video space has the size
\* of the guide frame drawn on screen, for every viewport.
C8_GuideMatchesFrame ==
    \A i \in 1..Len(caps) :
        HasCrop(i) =>
            /\ caps[i].crop.hudW_CSS = GuideFrameCSS(frame).width
            /\ caps[i].crop.hudH_CSS = GuideFrameCSS(frame).height

\* C9 as stated: the target raster is exactly the guide CSS size times 3,
\* for every viewport.
C9_RasterIsGuideTimesScale ==
    \A i \in 1..Len(caps) :
        HasCrop(i) =>
            /\ caps[i].crop.canvasWidth = RMul(caps[i].crop.hudW_CSS, R(scale))
            /\ caps[i].crop.canvasHeight = RMul(caps[i].crop.hudH_CSS, R(scale))

\* C9 amended: the target raster has whole-pixel sides, each the guide CSS
\* size times 3 rounded down (never more than the product and less than one
\* pixel below it); for the 1080x1920 viewport against the 4096x2160 video
\* it is 1350x1800, exactly the guide size times 3, and the source rectangle
\* is inside the video.
C9_RasterIsFlooredGuideTimesScale ==
    \A i \in 1..Len(caps) :
        HasCrop(i) =>
            LET c == caps[i].crop
                w3 == RMul(c.hudW_CSS, R(scale))
                h3 == RMul(c.hudH_CSS, R(scale))
            IN  /\ c.canvasWidth[2] = 1
                /\ c.canvasHeight[2] = 1
                /\ RLe(c.canvasWidth, w3) /\ RLt(RSub(w3, R(1)), c.canvasWidth)
                /\ RLe(c.canvasHeight, h3) /\ RLt(RSub(h3, R(1)), c.canvasHeight)
                /\ frame = ScenarioFrame =>
                      /\ c.canvasWidth = R(1350) /\ c.canvasHeight = R(1800)
                      /\ c.canvasWidth = w3 /\ c.canvasHeight = h3
                      /\ RLe(R(0), c.finalSourceX) /\ RLe(R(0), c.finalSourceY)
                      /\ RLe(RAdd(c.finalSourceX, c.finalSourceW), R(frame.vW))
                      /\ RLe(RAdd(c.finalSourceY, c.finalSourceH), R(frame.vH))

\* A crop was computed for a viewport whose guide size times 3 is not a
\* whole number of pixels.
C9_Witness ==
    \E i \in 1..Len(caps) :
        /\ HasCrop(i)
        /\ RMul(caps[i].crop.hudW_CSS, R(scale))[2] # 1
        /\ RMul(caps[i].crop.hudH_CSS, R(scale))[2] # 1

\* C10: on one scanner at most one capture is in progress at any time, the
\* controller is not Idle (isCapturing) while it is, and no capture delivers
\* more than one image to onCapture.
C10_OneCaptureAtATime ==
    /\ \A i, j \in 1..Len(caps) :
          (InProgress(i) /\ InProgress(j) /\ caps[i].scan = caps[j].scan) => i = j
    /\ \A i \in 1..Len(caps) :
          /\ caps[i].delivered <= 1
          /\ (InProgress(i) /\ SameScanner(i)) => (scanner.isCapturing /\ ~CanCapture)

\* A capture is suspended on the scanner that is shown, after an earlier
\* capture on that scanner returned to Idle, and the model would still
\* admit another call.
C10_Witness ==
    \E i, j \in 1..Len(caps) :
        /\ i # j
        /\ caps[i].scan = caps[j].scan
        /\ caps[i].pc = "done"
        /\ InProgress(j) /\ SameScanner(j)
        /\ Len(caps) < MaxCaptures


----------------------------------------------------------------------------
(* Claims about the ledger store *)

\* C1: addExpense, once complete, followed by deleteExpense on the id the add
\* generated leaves the set of ledger entries as it was before the add, and
\* issues exactly one blob-store delete for that id.
C1_AddThenDeleteRestores ==
    addDel.stage = "done" =>
        /\ addDel.after = addDel.before
        /\ addDel.deletes = 1

\* The add/delete pair ran on an id no other entry had.
C1_Witness ==
    /\ addDel.stage = "done"
    /\ addDel.before # {}
    /\ \A e \in addDel.before : e.id # addDel.id

InFlightAtClear == {i \in 1..MaxOps : tasks[i] # NoTask /\ tasks[i].pre}

ClearSettled == clr.stage = "pending" /\ clr.purged /\ InFlightAtClear = {}

\* C2: once a confirmed clear-all and every operation in flight when it
\* started have completed, the ledger is empty, the metadata is
\* INITIAL_METADATA and the blob store has no payload for an id that existed
\* before the clear.
C2_ClearAllLeavesNothing ==
    ClearSettled =>
        /\ expenses = <<>>
        /\ metadata = INITIAL_METADATA
        /\ \A id \in clr.ids : getImage(blob, id) = Absent

\* A clear-all that started while an operation was in flight has settled.
C2_Witness ==
    /\ ClearSettled
    /\ clr.ids # {}
    /\ ops >= 2

----------------------------------------------------------------------------
(* Claims about the report assembler *)

Rejected(exps, meta) == Len(exps) = 0 \/ meta.signatureUrl = NoUrl

\* C3: generatePDF starts no document on an empty ledger and none without a
\* signature; the two rejections raise different prompts, and neither
\* changes the ledger or the metadata.
C3_RejectionsDistinctAndHarmless ==
    [][GeneratePDF =>
        /\ Len(expenses) = 0 =>
              gens' = gens /\ ui'.lastAlert = "noExpenses"
        /\ Len(expenses) # 0 /\ metadata.signatureUrl = NoUrl =>
              gens' = gens /\ ui'.lastAlert = "signatureRequired"
        /\ Rejected(expenses, metadata) =>
              expenses' = expenses /\ metadata' = metadata /\ store' = store
      ]_vars

\* generatePDF was rejected for the missing signature on a ledger that has
\* entries.
C3_Witness ==
    /\ ui.lastAlert = "signatureRequired"
    /\ ui.showSignPad
    /\ Len(expenses) # 0
    /\ metadata.signatureUrl = NoUrl
    /\ gens = <<>>

Saved1Failure(g) ==
    /\ gens[g].pc = "saved"
    /\ Cardinality(gens[g].resolveFailed) = 1
    /\ gens[g].renderFailed = {}

RecordsOfKind(g, kind) == {r \in 1..Len(gens[g].records) : gens[g].records[r].kind = kind}

\* C4: with N entries of which exactly one fails to resolve from the blob
\* store, the saved document has N appendix records: N-1 image blocks and one
\* placeholder that names the failed entry.
C4_OneFailureKeepsAllRecords ==
    \A g \in 1..Len(gens) :
        Saved1Failure(g) =>
            /\ Len(gens[g].records) = Len(gens[g].exps)
            /\ Cardinality(RecordsOfKind(g, "image")) = Len(gens[g].exps) - 1
            /\ Cardinality(RecordsOfKind(g, "placeholder")) = 1
            /\ \A r \in RecordsOfKind(g, "placeholder") :
                  \E i \in gens[g].resolveFailed : gens[g].records[r].id = gens[g].exps[i].id

\* A document of two entries was saved after exactly one entry failed to
\* resolve.
C4_Witness ==
    \E g \in 1..Len(gens) : Saved1Failure(g) /\ Len(gens[g].exps) = 2

RECURSIVE SumAmounts(_, _)
SumAmounts(q, n) == IF n = 0 THEN 0 ELSE q[n].amount + SumAmounts(q, n - 1)

\* C5: in generatePDF totalSpent is the sum of the ledger's amounts, balance
\* is receivedAmount - totalSpent, and the summary is a surplus exactly when
\* balance >= 0 and a shortage otherwise (1000 against 1200 is a shortage of
\* 200, against 800 a surplus of 200, against 1000 a surplus of 0).
C5_BalanceAndSummary ==
    \A g \in 1..Len(gens) :
        LET gn == gens[g]
            spent == SumAmounts(expenses, Len(expenses))
            received == metadata.receivedAmount
        IN  /\ gn.totalSpent = spent
            /\ gn.balance = received - spent
            /\ gn.summary \in {"surplus", "shortage"}
            /\ gn.summary = "surplus" <=> gn.balance >= 0
            /\ gn.shown = IF gn.balance >= 0 THEN gn.balance ELSE -gn.balance
            /\ received = 1000 /\ spent = 1200 =>
                  gn.balance = -200 /\ gn.summary = "shortage" /\ gn.shown = 200
            /\ received = 1000 /\ spent = 800 =>
                  gn.balance = 200 /\ gn.summary = "surplus" /\ gn.shown = 200
            /\ received = 1000 /\ spent = 1000 =>
                  gn.balance = 0 /\ gn.summary = "surplus" /\ gn.shown = 0

\* A report was generated for a ledger whose amounts add up to exactly the
\* amount received.
C5_Witness ==
    \E g \in 1..Len(gens) :
        /\ gens[g].balance = 0
        /\ gens[g].summary = "surplus"
        /\ Len(gens[g].exps) = 2


----------------------------------------------------------------------------
(* Claims about the end of a capture *)

Ended(i) == caps[i].pc \in {"done", "threw"}

\* C11: a capture that left Idle has returned its controller to Idle
\* (isCapturing = false) when it ends, whether it failed or delivered an
\* image.
C11_EndedCaptureIsIdle ==
    \A i \in 1..Len(caps) : Ended(i) => caps[i].end # "busy"

\* A capture delivered its image and ended with its controller still shown.
C11_Witness ==
    \E i \in 1..Len(caps) :
        /\ caps[i].pc = "done"
        /\ caps[i].delivered = 1
        /\ caps[i].end = "busy"

\* C12: a capture that requested flash-on has requested flash-off by the
\* time it ends, on the exception path too, and the hardware flash is not on
\* once every capture has ended.
C12_FlashOffBeforeEnd ==
    /\ \A i \in 1..Len(caps) : Ended(i) => caps[i].off = "requested"
    /\ (\A i \in 1..Len(caps) : Ended(i)) => ~scanner.torch

\* The hardware flash is on after the only capture has ended without a
\* flash-off request, its scanner having been closed during the settle
\* delay.
C12_Witness ==
    /\ Len(caps) = 1
    /\ caps[1].pc = "threw"
    /\ caps[1].outcome = "closed"
    /\ caps[1].off = "none"
    /\ scanner.torch

\* C13: a capture that finds no decoded frame or no 2D context delivers no
\* image, computes no crop, requests flash-off, and leaves its controller
\* Idle with the flash UI off.
C13_NotReadyIsCleanNoOp ==
    \A i \in 1..Len(caps) :
        caps[i].outcome = "notReady" =>
            /\ caps[i].delivered = 0
            /\ caps[i].crop = NoCrop
            /\ caps[i].off = "requested"
            /\ caps[i].pc \in {"torchOffFail", "done"}
            /\ caps[i].pc = "done" => caps[i].end \in {"idle", "gone"}
            /\ (caps[i].pc = "done" /\ SameScanner(i) /\ Len(caps) = i) =>
                  ~scanner.isCapturing /\ ~scanner.flashUI /\ CanCapture

\* A capture on a video without a decoded frame has ended and its scanner
\* is still shown.
C13_Witness ==
    \E i \in 1..Len(caps) :
        /\ caps[i].outcome = "notReady"
        /\ caps[i].pc = "done"
        /\ caps[i].end = "idle"
        /\ SameScanner(i)
        /\ ~scanner.ready


----------------------------------------------------------------------------
(* Claims about the ledger's entries *)

\* C14: no two ledger entries have the same id, after any sequence of
\* hydration, add, update, delete and clear-all.
C14_UniqueIds ==
    \A i, j \in 1..Len(expenses) : expenses[i].id = expenses[j].id => i = j

\* The ledger holds two entries with different ids.
C14_Witness ==
    /\ Len(expenses) = 2
    /\ expenses[1].id # expenses[2].id

\* C15: every entry in the ledger, and every entry of the durable ledger
\* record, has an amount >= 0, whichever form or upload produced it.
C15_AmountsNonNegative ==
    /\ \A i \in 1..Len(expenses) : expenses[i].amount >= 0
    /\ store.data.present =>
          \A i \in 1..Len(store.data.value) : store.data.value[i].amount >= 0

\* An uploaded receipt whose recognised amount was missing is in the ledger
\* with amount 0.
C15_Witness ==
    \E i \in 1..Len(expenses) :
        /\ expenses[i].amount = 0
        /\ IsDataUrl(expenses[i].receiptUrl)

----------------------------------------------------------------------------
(* Claims about the recognition flow *)

FromRecognition == recog.pc \in {"added", "saved"} /\ recog.via \in {"review", "direct"}

\* C16: an entry derived from a successful recognition response gets
\* category Miscellaneous, the one default currency (the same on the scan
\* path and on the upload path) and date today for whichever of the three
\* the response omits, and none of its title, date, amount, currency and
\* category is undefined.
C16_OmittedFieldsDefaulted ==
    FromRecognition =>
        /\ recog.response.category = Undefined => recog.entry.category = "Miscellaneous"
        /\ recog.response.date = Undefined => recog.entry.date = Today
        /\ recog.response.currency = Undefined =>
              /\ recog.entry.currency = ScanCurrency
              /\ recog.entry.currency = UploadCurrency
        /\ \A f \in {"title", "date", "currency", "category"} :
              recog.entry[f] \notin {Undefined, ""}
        /\ recog.entry.amount \in Int

C16_Witness ==
    /\ recog.pc = "saved"
    /\ recog.path = "upload"
    /\ recog.response.currency = Undefined
    /\ recog.response.category = Undefined
    /\ Len(expenses) = 1
    /\ expenses[1].category = "Miscellaneous"
    /\ expenses[1].currency = "USD"

\* C17: an entry saved from the manual form that opens when recognition of a
\* captured image fails has the captured image in the blob store under its id.
C17_FailedScanKeepsImage ==
    (recog.pc = "saved" /\ recog.via = "manual") =>
        /\ Len(expenses) = 1
        /\ expenses[1].receiptUrl = CapturedImage
        /\ getImage(blob, expenses[1].id) = CapturedImage

C17_Witness ==
    /\ recog.pc = "saved"
    /\ recog.via = "manual"
    /\ Len(expenses) = 1
    /\ expenses[1].receiptUrl = ""
    /\ \A id \in Ids : getImage(blob, id) = Absent

----------------------------------------------------------------------------
(* Claims about persistence and the purge *)

\* The durable ledger record is the in-memory ledger, entry by entry in the
\* same order, without the payload.
DurableMatchesLedger ==
    /\ store.data.present
    /\ Len(store.data.value) = Len(expenses)
    /\ \A i \in 1..Len(expenses) :
          /\ store.data.value[i].id = expenses[i].id
          /\ store.data.value[i].amount = expenses[i].amount
          /\ store.data.value[i].receiptUrl = NoUrl

DurableMatchesMetadata == store.meta.present /\ store.meta.value = metadata

\* C18: no step taken before the startup hydration has completed writes the
\* durable store, and from hydration on, after every mutation, the durable
\* ledger record is the in-memory ledger in the same order without
\* receiptUrl and the durable metadata record is the in-memory metadata.
C18_DurableFollowsMemory ==
    /\ [](store.isLoaded => DurableMatchesLedger /\ DurableMatchesMetadata)
    /\ [][~store'.isLoaded => store'.data = store.data /\ store'.meta = store.meta]_vars

C18_Witness ==
    /\ store.isLoaded
    /\ metadata # INITIAL_METADATA
    /\ \E i \in 1..Len(expenses) :
          /\ IsDataUrl(expenses[i].receiptUrl)
          /\ store.data.value[i].receiptUrl = NoUrl
          /\ store.data.value[i].id = expenses[i].id

\* An entry without a payload of its own whose id resolves to the image that
\* an entry removed by the clear had under that id.
Resurfaced(i) ==
    LET id == expenses[i].id
    IN  /\ expenses[i].receiptUrl = NoUrl
        /\ clr.removed[id] # Absent
        /\ getImage(blob, id) = clr.removed[id]

\* C19: once the purge of a clear-all has failed, no entry of the ledger,
\* a newly added one included, resolves through the blob store to an image
\* that belonged to an entry the clear removed.
C19_NoImageResurfaces ==
    (clr.stage # "idle" /\ clr.purge = "failed") =>
        \A i \in 1..Len(expenses) : ~Resurfaced(i)

C19_Witness ==
    /\ clr.stage # "idle"
    /\ clr.purge = "failed"
    /\ \E id \in Ids : clr.removed[id] = "imgA" /\ getImage(blob, id) = "imgA"
    /\ Len(expenses) = 1
    /\ expenses[1].receiptUrl = NoUrl
    /\ clr.removed[expenses[1].id] = Absent
    /\ getImage(blob, expenses[1].id) = Absent

----------------------------------------------------------------------------
(* Claims about the appendix pages *)

\* C20: every page added for the appendix, the first one and every overflow
\* page, is added with portrait orientation given in the call, whatever the
\* orientation of the landscape main page.
C20_AppendixPagesPortrait ==
    \A g \in 1..Len(gens) :
        /\ gens[g].pages[1] = "l"
        /\ \A k \in 2..Len(gens[g].pages) : gens[g].pages[k] = "p"

C20_Witness ==
    \E g \in 1..Len(gens) :
        /\ gens[g].pc = "saved"
        /\ Len(gens[g].pages) = 3
        /\ gens[g].pages[3] = "p"
        /\ \E r \in Range(gens[g].records) : r.page = 3 /\ r.kind = "image"

\* The lowest point of a record on its page: the image's lower edge for an
\* image block (reference line at y, image from y + 4), the text line of a
\* placeholder.
RecordBottom(r) == IF r.kind = "image" THEN r.y + 4 + ImageHeight ELSE r.y

\* C21: whatever the ledger and whichever entries fail, every appendix
\* record, image block or failure placeholder, lies inside the 297 mm of its
\* portrait page.
C21_RecordsInsidePage ==
    \A g \in 1..Len(gens) :
        \A r \in Range(gens[g].records) : RecordBottom(r) <= PageHeight

C21_Witness ==
    \E g \in 1..Len(gens) :
        /\ gens[g].pc = "saved"
        /\ Len(gens[g].records) = 4
        /\ \A r \in Range(gens[g].records) : r.kind = "image" /\ RecordBottom(r) <= PageHeight
        /\ gens[g].records[4].page = 3

InProgressGens == {g \in 1..Len(gens) : gens[g].pc = "getImage"}

\* C22: at most one generatePDF is suspended on a blob-store read at any time:
\* a click made while an earlier generatePDF is suspended starts no second
\* assembly.
C22_OneGenerationAtATime == Cardinality(InProgressGens) <= 1

C22_Witness ==
    /\ Len(gens) = 2
    /\ gens[1].pc = "saved"
    /\ gens[2].pc = "saved"
    /\ gens[1].records = gens[2].records
    /\ Len(gens[1].records) = 2

----------------------------------------------------------------------------
(* Claims about closing the scanner, confirmation and the ledger handlers *)

\* C23: a capture that resumes after its scanner was closed during the flash
\* request or the settle delay raises no error and delivers no image, and
\* the application shows no processing overlay, draft or manual form for it.
C23_ClosedCaptureIsNoOp ==
    \A i \in 1..Len(caps) :
        caps[i].outcome = "closed" =>
            /\ caps[i].pc # "threw"
            /\ caps[i].delivered = 0

C23_Witness ==
    /\ Len(caps) = 1
    /\ caps[1].outcome = "closed"
    /\ caps[1].delivered = 0
    /\ caps[1].crop = NoCrop
    /\ ~ui.isProcessing
    /\ ~ui.pendingOCRData
    /\ ~ui.showManualForm
    /\ ui.analyses = 0

\* C24: an entry derived from a recognition result is handed to addExpense
\* only from the review form the user has submitted, on the scan path and on
\* the upload path alike.
C24_ConfirmedBeforeAdd ==
    FromRecognition => /\ recog.via = "review"
                       /\ recog.initialData # NoEntry

C24_Witness ==
    /\ recog.pc = "saved"
    /\ recog.path = "scan"
    /\ recog.via = "review"
    /\ recog.initialData = ScanDraft(recog.response)
    /\ Len(expenses) = 1
    /\ expenses[1].title = "Store"

\* The fields the edit form can hand to updateExpense.
UpdateSets == [amount : {FormAmount(t) : t \in FormAmounts}, receiptUrl : {NoUrl} \cup NewUrls]

\* The ids of the entries of the ledger, and MaxIds, an id that addExpense
\* never draws and no stored ledger holds.
UpdateIds == {expenses[j].id : j \in 1..Len(expenses)} \cup {MaxIds}

\* q is p with updates merged into the entries whose id is id, and nothing
\* else changed.
MergedInPlace(p, q, id, updates) ==
    /\ Len(q) = Len(p)
    /\ \A j \in 1..Len(p) :
          /\ q[j].id = p[j].id
          /\ p[j].id # id => q[j] = p[j]
          /\ p[j].id = id => /\ q[j].amount = updates.amount
                             /\ q[j].receiptUrl = updates.receiptUrl

\* A step in which a started operation changed entries of the ledger but not
\* their number: updateExpense up to its await.
UpdateStep ==
    /\ ops' = ops + 1
    /\ Len(expenses') = Len(expenses)
    /\ expenses' # expenses

\* C25: updateExpense(id, updates) merges updates into the entry with that id
\* and leaves the number, the order and the ids of the entries and every
\* entry with another id as they were; a ledger without that id is left
\* unchanged; the blob store is written only by the saveImage it starts for
\* that id, and it starts one only when updates has an inline payload.
C25_UpdateChangesOnlyItsEntry ==
    /\ [](\A id \in UpdateIds, updates \in UpdateSets :
             /\ MergedInPlace(expenses, Merge(expenses, id, updates), id, updates)
             /\ (\A j \in 1..Len(expenses) : expenses[j].id # id) =>
                    Merge(expenses, id, updates) = expenses)
    /\ [][UpdateStep =>
             /\ blob' = blob
             /\ \E id \in Ids, updates \in UpdateSets :
                   /\ MergedInPlace(expenses, expenses', id, updates)
                   /\ \A t \in 1..MaxOps :
                         tasks'[t] # tasks[t] =>
                             /\ tasks[t] = NoTask
                             /\ tasks'[t].kind = "update"
                             /\ tasks'[t].id = id
                             /\ IsDataUrl(updates.receiptUrl)
                             /\ tasks'[t].url = updates.receiptUrl
                   /\ IsDataUrl(updates.receiptUrl) => tasks' # tasks]_vars

C25_Witness ==
    /\ Len(expenses) = 2
    /\ expenses[1].id # expenses[2].id
    /\ expenses[1].amount = 0 - 50
    /\ IsDataUrl(expenses[1].receiptUrl)
    /\ expenses[2].amount = 200
    /\ \E t \in 1..MaxOps : tasks[t].kind = "update" /\ tasks[t].id = expenses[1].id

\* C27: every ledger entry that was added with an inline payload resolves to
\* a payload under its id in the blob store, in every reachable state.
C27_PayloadEntriesResolve ==
    \A i \in 1..Len(expenses) :
        IsDataUrl(expenses[i].receiptUrl) => getImage(blob, expenses[i].id) # Absent

C27_Witness ==
    /\ Len(expenses) = 2
    /\ expenses[1].id # expenses[2].id
    /\ expenses[1].receiptUrl = "imgB"
    /\ getImage(blob, expenses[1].id) = "imgB"
    /\ \A t \in 1..MaxOps : tasks[t] = NoTask
    /\ clr.stage = "idle"

\* C26: when an updateExpense that carries an inline payload and a
\* deleteExpense of the same id have both completed, their blob-store
\* requests having succeeded, the entry is not in the ledger and the blob
\* store has no payload under that id, in whichever order they completed.
C26_UpdateThenDeleteLeavesNothing ==
    (updDel.stage = "racing" /\ updDel.saved = "ok" /\ updDel.deleted = "ok") =>
        /\ \A i \in 1..Len(expenses) : expenses[i].id # updDel.id
        /\ getImage(blob, updDel.id) = Absent

C26_Witness ==
    /\ updDel.stage = "racing"
    /\ updDel.saved = "ok"
    /\ updDel.deleted = "ok"
    /\ updDel.uslot # updDel.dslot
    /\ \A i \in 1..Len(expenses) : expenses[i].id # updDel.id
    /\ getImage(blob, updDel.id) = Absent

\* C28: once no scanner is shown, no track of a camera stream that a scanner
\* acquired is live, whenever the stream was acquired.
C28_NoLiveStreamWithoutScanner == ~scanner.mounted => ~scanner.live

C28_Witness ==
    /\ ~scanner.mounted
    /\ ~ui.showScanner
    /\ ui.scans = 1
    /\ ui.lastAlert = "camera"
    /\ ~scanner.live
    /\ ~scanner.lateReq

\* C29: when handleCapture has cleared the processing overlay, either the
\* recognition draft is pending or the manual form is shown, never both.
C29_DraftOrManualNotBoth == ~(ui.pendingOCRData /\ ui.showManualForm)

C29_Witness ==
    /\ Len(caps) = 1
    /\ caps[1].delivered = 1
    /\ ui.analyses = 0
    /\ ~ui.isProcessing
    /\ ui.showManualForm
    /\ ~ui.pendingOCRData
    /\ ui.lastAlert = "scanInconclusive"

----------------------------------------------------------------------------
(* Claim about the aspect ratio of the crop *)

\* C30 as stated: the source rectangle and the target raster have the same
\* aspect ratio, finalSourceW * canvas.height = finalSourceH * canvas.width.
C30_SourceAspectIsRasterAspect ==
    \A i \in 1..Len(caps) :
        HasCrop(i) =>
            RMul(caps[i].crop.finalSourceW, caps[i].crop.canvasHeight)
                = RMul(caps[i].crop.finalSourceH, caps[i].crop.canvasWidth)

\* C30 amended: the source rectangle has the aspect ratio of the guide size
\* (hudW_CSS : hudH_CSS); each side of the target raster is the guide side
\* times 3 with its fraction dropped, so the two aspect ratios are equal when
\* both products are whole and otherwise each raster side is less than one
\* pixel short of the side that would make them equal.
C30_SourceAspectIsGuideAspect ==
    \A i \in 1..Len(caps) :
        HasCrop(i) =>
            LET c == caps[i].crop
                w3 == RMul(c.hudW_CSS, R(scale))
                h3 == RMul(c.hudH_CSS, R(scale))
            IN  /\ RMul(c.finalSourceW, h3) = RMul(c.finalSourceH, w3)
                /\ RLt(R(0), c.finalSourceW) /\ RLt(R(0), c.finalSourceH)
                /\ RLe(c.canvasWidth, w3) /\ RLt(w3, RAdd(c.canvasWidth, R(1)))
                /\ RLe(c.canvasHeight, h3) /\ RLt(h3, RAdd(c.canvasHeight, R(1)))
                /\ (w3[2] = 1 /\ h3[2] = 1) =>
                      RMul(c.finalSourceW, c.canvasHeight)
                          = RMul(c.finalSourceH, c.canvasWidth)

C30_Witness ==
    \E i \in 1..Len(caps) :
        /\ HasCrop(i)
        /\ RMul(caps[i].crop.finalSourceW, caps[i].crop.canvasHeight)
               # RMul(caps[i].crop.finalSourceH, caps[i].crop.canvasWidth)
        /\ RMul(caps[i].crop.hudH_CSS, R(scale))[2] = 1
        /\ RLt(caps[i].crop.canvasWidth, RMul(caps[i].crop.hudW_CSS, R(scale)))

====
